---- MODULE Spec2Model ----
(***************************************************************************)
(* SimpleJobBot: the two package assemblers (src/main.py process_job and   *)
(* src/app/services/generation.py generate_full_package), the tagged        *)
(* output parser, the fit labelers and the diagnostics error buffer.        *)
(*                                                                         *)
(* Text is modelled at character level: a string is a sequence of          *)
(* one-character strings, so find / strip / split / regular expressions    *)
(* are computed position by position as Python computes them.              *)
(***************************************************************************)
EXTENDS Integers, Sequences, FiniteSets, TLC

\* ------------------------------------------------------------------ bounds
\* Tokens in a model output built around the fit score line.
MaxFitTokens == 3
\* Tokens in a model output built from the section tags.
MaxSectionTokens == 2
\* Lines or paragraphs in a short-answers reply.
MaxAnswerTokens == 5
\* Highest fit score given to the labelers, in points.
MaxScore == 110
\* Number of submissions in a run of the system.
MaxSubs == 2
\* Last second the wall clock reaches.
MaxClock == 1
\* Number of record_error calls in a run of the diagnostics buffer.
MaxErrors == 22
\* Last second the wall clock reaches in a run of the diagnostics buffer.
MaxErrClock == 2
MaxEntries == 3
MaxLimit == 3
MaxNameLen == 4
MaxExtractTokens == 4
MaxLinkTokens == 4
MaxShortDescription == 3
MaxOverLong == 3

\* --------------------------------------------------------- program constants
\* deque(maxlen=20)
ErrorBufferMaxLen == 20
\* raw[:300] / text[:300]
SnippetLen == 300

\* ------------------------------------------------------------ python strings
Min(S) == CHOOSE x \in S : \A y \in S : x <= y

Max(S) == CHOOSE x \in S : \A y \in S : x >= y

\* Characters str.strip() and the regex class \s remove.
Whitespace == {" ", "\n", "\t", "\r"}

Digits == <<"0", "1", "2", "3", "4", "5", "6", "7", "8", "9">>

Uppers == <<"A", "B", "C", "D", "E", "F", "G", "H", "I", "J", "K", "L", "M",
            "N", "O", "P", "Q", "R", "S", "T", "U", "V", "W", "X", "Y", "Z">>

Lowers == <<"a", "b", "c", "d", "e", "f", "g", "h", "i", "j", "k", "l", "m",
            "n", "o", "p", "q", "r", "s", "t", "u", "v", "w", "x", "y", "z">>

Range(s) == {s[i] : i \in 1..Len(s)}

IsDigit(c) == c \in Range(Digits)

IsUpper(c) == c \in Range(Uppers)

IsLower(c) == c \in Range(Lowers)

\* str.lower() on one character.
LowerChar(c) ==
  IF IsUpper(c) THEN Lowers[CHOOSE i \in 1..Len(Uppers) : Uppers[i] = c] ELSE c

\* str.lower()
StrLower(s) == [i \in 1..Len(s) |-> LowerChar(s[i])]

\* "".join(parts)
RECURSIVE Concat(_)
Concat(parts) ==
  IF parts = <<>> THEN <<>> ELSE Head(parts) \o Concat(Tail(parts))

\* s[from:] with a 1-based from.
Drop(s, from) == SubSeq(s, from, Len(s))

\* Whether pat occurs in s at (1-based) position i.
OccursAt(s, pat, i) ==
  /\ i >= 1
  /\ i + Len(pat) - 1 <= Len(s)
  /\ SubSeq(s, i, i + Len(pat) - 1) = pat

\* str.find(pat, start) with 1-based positions; 0 stands for Python's -1.
Find(s, pat, from) ==
  LET hits == {i \in from..(Len(s) - Len(pat) + 1) : OccursAt(s, pat, i)}
  IN IF hits = {} THEN 0 ELSE Min(hits)

\* pat in s
Contains(s, pat) == Find(s, pat, 1) # 0

\* str.startswith(pat)
StartsWith(s, pat) == OccursAt(s, pat, 1)

\* str.strip(chars): drop leading and trailing characters of the set.
StripChars(s, chars) ==
  LET keep == {i \in 1..Len(s) : s[i] \notin chars}
  IN IF keep = {} THEN <<>> ELSE SubSeq(s, Min(keep), Max(keep))

\* str.strip()
Strip(s) == StripChars(s, Whitespace)

\* str.replace(old, new): leftmost, non-overlapping occurrences.
RECURSIVE Replace(_, _, _)
Replace(s, old, new) ==
  LET at == Find(s, old, 1)
  IN IF at = 0 THEN s
     ELSE SubSeq(s, 1, at - 1) \o new
            \o Replace(Drop(s, at + Len(old)), old, new)

\* str.split(sep) for a non-empty separator.
RECURSIVE Split(_, _)
Split(s, sep) ==
  LET at == Find(s, sep, 1)
  IN IF at = 0 THEN <<s>>
     ELSE <<SubSeq(s, 1, at - 1)>> \o Split(Drop(s, at + Len(sep)), sep)

\* str.splitlines(): break at \n, \r and \r\n; no empty last line.
RECURSIVE SplitLines(_)
SplitLines(s) ==
  IF s = <<>> THEN <<>>
  ELSE LET brk == {i \in 1..Len(s) : s[i] \in {"\n", "\r"}}
       IN IF brk = {} THEN <<s>>
          ELSE LET at == Min(brk)
                   skip == IF s[at] = "\r" /\ at < Len(s) /\ s[at + 1] = "\n"
                           THEN 2 ELSE 1
               IN <<SubSeq(s, 1, at - 1)>> \o SplitLines(Drop(s, at + skip))

\* sep.join(parts)
RECURSIVE Join(_, _)
Join(parts, sep) ==
  IF parts = <<>> THEN <<>>
  ELSE IF Len(parts) = 1 THEN parts[1]
  ELSE parts[1] \o sep \o Join(Tail(parts), sep)

\* Length of the longest run of characters of the set starting at position i.
RunLen(s, i, chars) ==
  LET stops == {k \in i..Len(s) : s[k] \notin chars}
  IN IF stops # {} THEN Min(stops) - i
     ELSE IF i <= Len(s) THEN Len(s) - i + 1 ELSE 0

\* All sequences over S of length at most n.
SeqsUpTo(S, n) == UNION {[1..k -> S] : k \in 0..n}

\* String literal helpers: the tags and fixed tokens of the source, spelled out.
TagFitScore == <<"F", "I", "T", "_", "S", "C", "O", "R", "E", ":">>

TagReasoning == <<"R", "E", "A", "S", "O", "N", "I", "N", "G", ":">>

TagCoverLetter == <<"C", "O", "V", "E", "R", "_", "L", "E", "T", "T", "E", "R", ":">>

TagEndCoverLetter ==
  <<"E", "N", "D", "_", "C", "O", "V", "E", "R", "_", "L", "E", "T", "T", "E", "R">>

TagResume == <<"R", "E", "S", "U", "M", "E", ":">>

TagEndResume == <<"E", "N", "D", "_", "R", "E", "S", "U", "M", "E">>

TagShortAnswers ==
  <<"S", "H", "O", "R", "T", "_", "A", "N", "S", "W", "E", "R", "S", ":">>

TagEndShortAnswers ==
  <<"E", "N", "D", "_", "S", "H", "O", "R", "T", "_", "A", "N", "S", "W", "E", "R", "S">>

NL == <<"\n">>

Ellipsis == <<".", ".", ".">>

\* The backquote character, written as a token of its own.
Backquote == "BQ"

CodeFence == <<Backquote, Backquote, Backquote>>

WordContinued == <<"c", "o", "n", "t", "i", "n", "u", "e", "d">>

\* ------------------------------------------------------------- sanitize_part
\* re.sub(r"\s+", "_", s): every whitespace run becomes one underscore.
RECURSIVE SubWsRuns(_)
SubWsRuns(s) ==
  LET ws == {i \in 1..Len(s) : s[i] \in Whitespace}
  IN IF ws = {} THEN s
     ELSE LET at == Min(ws)
          IN SubSeq(s, 1, at - 1) \o <<"_">>
               \o SubWsRuns(Drop(s, at + RunLen(s, at, Whitespace)))

\* re.sub(r"[^a-z0-9_]", "", s)
DropNotLowerAlnum(s) ==
  SelectSeq(s, LAMBDA c : IsLower(c) \/ IsDigit(c) \/ c = "_")

\* A sanitize_part that forgets cleaned.lower().
AppSanitizeNoLower(text, fallback) ==
  LET stripped == Strip(text)
  IN IF stripped = <<>> THEN fallback
     ELSE LET cleaned == DropNotLowerAlnum(SubWsRuns(stripped))
          IN IF cleaned = <<>> THEN fallback ELSE cleaned

\* src/app/utils.py sanitize_part(text, fallback)
AppSanitizePart(text, fallback) ==
  LET stripped == Strip(text)
  IN IF stripped = <<>> THEN fallback
     ELSE LET cleaned == DropNotLowerAlnum(SubWsRuns(StrLower(stripped)))
          IN IF cleaned = <<>> THEN fallback ELSE cleaned

IsAlnum(c) == IsLower(c) \/ IsUpper(c) \/ IsDigit(c)

\* re.sub(r"[^A-Za-z0-9]+", "_", s)
RECURSIVE SubNonAlnumRuns(_)
SubNonAlnumRuns(s) ==
  LET bad == {i \in 1..Len(s) : ~IsAlnum(s[i])}
  IN IF bad = {} THEN s
     ELSE LET at == Min(bad)
              rest == {i \in at..Len(s) : IsAlnum(s[i])}
          IN SubSeq(s, 1, at - 1) \o <<"_">>
               \o (IF rest = {} THEN <<>> ELSE SubNonAlnumRuns(Drop(s, Min(rest))))

FallbackJob == <<"j", "o", "b">>

FallbackCompany == <<"c", "o", "m", "p", "a", "n", "y">>

FallbackTitle == <<"t", "i", "t", "l", "e">>

\* fallback: str = "untitled"
FallbackUntitled == <<"u", "n", "t", "i", "t", "l", "e", "d">>

\* src/main.py sanitize_part(text)
MainSanitizePart(text) ==
  IF text = <<>> THEN FallbackJob
  ELSE LET cleaned == StripChars(SubNonAlnumRuns(text), {"_"})
       IN IF cleaned = <<>> THEN FallbackJob ELSE cleaned

\* ------------------------------------------------------------- folder names
TwoDigits(n) == <<Digits[((n \div 10) % 10) + 1], Digits[(n % 10) + 1]>>

\* datetime.now().strftime("%Y%m%d_%H%M%S") for the clock second t, counted
\* from midnight of a fixed day.
StrfTime(t) ==
  <<"2", "0", "2", "5", "0", "1", "0", "1", "_">>
    \o TwoDigits((t \div 3600) % 24) \o TwoDigits((t \div 60) % 60)
    \o TwoDigits(t % 60)

\* src/main.py create_job_folder: f"{stamp}_{company}_{title}"
MainFolderName(company, title, t) ==
  StrfTime(t) \o <<"_">> \o MainSanitizePart(company) \o <<"_">>
    \o MainSanitizePart(title)

\* generate_full_package: f"{company}_{title}_{timestamp}"
AppFolderName(company, title, t) ==
  AppSanitizePart(company, FallbackCompany) \o <<"_">>
    \o AppSanitizePart(title, FallbackTitle) \o <<"_">> \o StrfTime(t)

\* ---------------------------------------------------------------- fit labels
\* Scores are counted in tenths of a point: ScoreScale * 85 is the float 85.0.
ScoreScale == 10

ThresholdStrong == 85

ThresholdGoodMain == 70

ThresholdGoodApp == 65

ThresholdModerate == 55

\* A labeler whose top bucket starts above 85, not at 85.
MapScoreAboveStrong(score) ==
  IF score > ThresholdStrong * ScoreScale THEN "Strong fit"
  ELSE IF score >= ThresholdGoodMain * ScoreScale THEN "Good fit"
  ELSE IF score >= ThresholdModerate * ScoreScale THEN "Moderate fit"
  ELSE "Low fit"

\* src/main.py map_score_to_label
map_score_to_label(score) ==
  IF score >= ThresholdStrong * ScoreScale THEN "Strong fit"
  ELSE IF score >= ThresholdGoodMain * ScoreScale THEN "Good fit"
  ELSE IF score >= ThresholdModerate * ScoreScale THEN "Moderate fit"
  ELSE "Low fit"

\* src/app/utils.py label_fit
label_fit(score) ==
  IF score >= ThresholdStrong * ScoreScale THEN "Strong fit"
  ELSE IF score >= ThresholdGoodApp * ScoreScale THEN "Good fit"
  ELSE "Weak fit"

\* ---------------------------------------------------------- clean_model_text
\* re.sub(r"\[([^\]]+)\]\(([^)]+)\)", r"\1", s): one left-to-right pass over
\* non-overlapping matches. The label runs to the first "]" and the url to the
\* first ")", both non-empty, because their classes exclude the closing mark.
RECURSIVE CollapseLinks(_)
CollapseLinks(s) ==
  LET b == Find(s, <<"[">>, 1)
  IN IF b = 0 THEN s
     ELSE LET j == Find(s, <<"]">>, b + 1)
              k == IF j = 0 THEN 0 ELSE Find(s, <<")">>, j + 2)
              matches == /\ j >= b + 2
                         /\ OccursAt(s, <<"(">>, j + 1)
                         /\ k >= j + 3
          IN IF matches
             THEN SubSeq(s, 1, b - 1) \o SubSeq(s, b + 1, j - 1)
                    \o CollapseLinks(Drop(s, k + 1))
             ELSE SubSeq(s, 1, b) \o CollapseLinks(Drop(s, b + 1))

\* The placeholder test of the line loop.
IsPlaceholderLine(line) ==
  LET stripped == Strip(line)
      lower == StrLower(stripped)
  IN \/ StartsWith(stripped, Ellipsis)
     \/ Contains(lower, WordContinued) /\ Contains(stripped, Ellipsis)

\* The line loop: keep every line that is no placeholder.
DropPlaceholderLines(lines) ==
  SelectSeq(lines, LAMBDA line : ~IsPlaceholderLine(line))

\* re.sub(r"\n{3,}", "\n\n", s)
RECURSIVE TidyBlankLines(_)
TidyBlankLines(s) ==
  LET at == Find(s, NL, 1)
  IN IF at = 0 THEN s
     ELSE LET r == RunLen(s, at, {"\n"})
          IN SubSeq(s, 1, at - 1)
               \o (IF r >= 3 THEN <<"\n", "\n">> ELSE SubSeq(s, at, at + r - 1))
               \o TidyBlankLines(Drop(s, at + r))

\* src/main.py clean_model_text
clean_model_text(text) ==
  IF text = <<>> THEN <<>>
  ELSE LET s1 == Replace(text, <<"\\", "n">>, <<"\n">>)
           s2 == Replace(s1, <<"\\", "r">>, <<"\r">>)
           s3 == Replace(s2, <<"\\", "t">>, <<"\t">>)
           s4 == Replace(s3, <<"\\", "u", "0", "0", "2", "2">>, <<"\"">>)
           s5 == Replace(s4, CodeFence, <<>>)
           s6 == CollapseLinks(s5)
           s7 == Join(DropPlaceholderLines(SplitLines(s6)), NL)
           s8 == TidyBlankLines(s7)
       IN Strip(s8)

\* ------------------------------------------------------- parse_model_output
\* src/main.py extract_block
extract_block(text, start_tag, end_tag) ==
  LET start_idx == Find(text, start_tag, 1)
  IN IF start_idx = 0 THEN <<>>
     ELSE LET from == start_idx + Len(start_tag)
              end_idx == Find(text, end_tag, from)
              upto == IF end_idx = 0 THEN Len(text) + 1 ELSE end_idx
          IN Strip(SubSeq(text, from, upto - 1))

\* One section of parse_model_output: the tag with a newline first, the bare
\* tag when that gave nothing, then clean_model_text.
ExtractSection(text, tag, end_tag) ==
  LET first == extract_block(text, tag \o NL, end_tag)
      block == IF first = <<>> THEN extract_block(text, tag, end_tag) ELSE first
  IN clean_model_text(block)

\* int() of a digit string.
RECURSIVE DigitsToNat(_)
DigitsToNat(ds) ==
  IF ds = <<>> THEN 0
  ELSE 10 * DigitsToNat(SubSeq(ds, 1, Len(ds) - 1))
         + (CHOOSE d \in 0..9 : Digits[d + 1] = ds[Len(ds)])

\* A match that wants the digit right after the tag, with no \s* between.
FitScoreMatchesAtNoSpace(text, i) ==
  /\ OccursAt(text, TagFitScore, i)
  /\ RunLen(text, i + Len(TagFitScore), Range(Digits)) >= 1

\* Where re.search(r"FIT_SCORE:\s*([0-9]+(?:\.[0-9]+)?)", text) matches at
\* position i: the tag, any whitespace, then at least one digit.
FitScoreMatchesAt(text, i) ==
  /\ OccursAt(text, TagFitScore, i)
  /\ LET j == i + Len(TagFitScore)
     IN RunLen(text, j + RunLen(text, j, Whitespace), Range(Digits)) >= 1

\* The leftmost match position, 0 when re.search returns None.
FitScoreSearch(text) ==
  LET hits == {i \in 1..Len(text) : FitScoreMatchesAt(text, i)}
  IN IF hits = {} THEN 0 ELSE Min(hits)

\* float(m.group(1)) in tenths: the integer digits, then an optional "." with
\* at least one digit (digits beyond the first decimal are below a tenth).
FitScoreValue(text, i) ==
  LET j == i + Len(TagFitScore)
      d == j + RunLen(text, j, Whitespace)
      n == RunLen(text, d, Range(Digits))
      f == IF OccursAt(text, <<".">>, d + n)
           THEN RunLen(text, d + n + 1, Range(Digits)) ELSE 0
  IN ScoreScale * DigitsToNat(SubSeq(text, d, d + n - 1))
       + (IF f >= 1 THEN DigitsToNat(<<text[d + n + 1]>>) ELSE 0)

\* re.sub(r"^[0-9]+\s*[\).\-\:]\s*", "", line)
StripEnumerator(line) ==
  LET n == RunLen(line, 1, Range(Digits))
      w == RunLen(line, n + 1, Whitespace)
      p == n + w + 1
  IN IF n >= 1 /\ p <= Len(line) /\ line[p] \in {")", ".", "-", ":"}
     THEN Drop(line, p + 1 + RunLen(line, p + 1, Whitespace))
     ELSE line

\* The loop over sa_block.splitlines().
RECURSIVE CollectAnswers(_)
CollectAnswers(lines) ==
  IF lines = <<>> THEN <<>>
  ELSE LET line == Strip(Head(lines))
       IN (IF line = <<>> THEN <<>> ELSE <<StripEnumerator(line)>>)
            \o CollectAnswers(Tail(lines))

\* The number of short answers a package holds.
NumAnswers == 3

\* while len(short_answers) < 3: short_answers.append("")
RECURSIVE PadWithEmpty(_)
PadWithEmpty(answers) ==
  IF Len(answers) < NumAnswers THEN PadWithEmpty(Append(answers, <<>>))
  ELSE answers

\* An end of parse_model_output that pads and never truncates.
NormalizeAnswersNoTruncate(answers) == PadWithEmpty(answers)

\* The truncation and padding that end parse_model_output.
NormalizeAnswers(answers) ==
  PadWithEmpty(IF Len(answers) > NumAnswers
               THEN SubSeq(answers, 1, NumAnswers) ELSE answers)

\* text[:300]
Snippet(text) == SubSeq(text, 1, IF Len(text) < SnippetLen THEN Len(text) ELSE SnippetLen)

\* src/main.py parse_model_output: the HTTPException it raises, or its tuple.
parse_model_output(raw) ==
  LET m == FitScoreSearch(raw)
  IN IF m = 0
     THEN [ok |-> FALSE, status_code |-> 500,
           detail |-> [text |-> "Could not find FIT_SCORE in model output",
                       snippet |-> Snippet(raw)]]
     ELSE [ok |-> TRUE,
           fit_score |-> FitScoreValue(raw, m),
           reasoning |-> ExtractSection(raw, TagReasoning, TagCoverLetter),
           cover_letter |-> ExtractSection(raw, TagCoverLetter, TagEndCoverLetter),
           resume |-> ExtractSection(raw, TagResume, TagEndResume),
           short_answers |->
             NormalizeAnswers(CollectAnswers(SplitLines(
               ExtractSection(raw, TagShortAnswers, TagEndShortAnswers))))]

\* -------------------------------------------------- generate_short_answers
\* [p.strip() for p in raw.split("\n\n") if p.strip()]
RECURSIVE StrippedParts(_)
StrippedParts(pieces) ==
  IF pieces = <<>> THEN <<>>
  ELSE (IF Strip(Head(pieces)) = <<>> THEN <<>> ELSE <<Strip(Head(pieces))>>)
         \o StrippedParts(Tail(pieces))

\* A padding loop that repeats the first part: parts.append(parts[0]).
RECURSIVE PadWithFirst(_)
PadWithFirst(parts) ==
  IF Len(parts) < NumAnswers THEN PadWithFirst(Append(parts, parts[1]))
  ELSE parts

\* while len(parts) < 3: parts.append(parts[-1])
RECURSIVE PadWithLast(_)
PadWithLast(parts) ==
  IF Len(parts) < NumAnswers THEN PadWithLast(Append(parts, parts[Len(parts)]))
  ELSE parts

\* src/app/services/generation.py generate_short_answers, after the model call.
generate_short_answers(raw) ==
  LET parts == StrippedParts(Split(raw, <<"\n", "\n">>))
  IN IF Len(parts) >= NumAnswers THEN SubSeq(parts, 1, NumAnswers)
     ELSE IF parts # <<>> THEN SubSeq(PadWithLast(parts), 1, NumAnswers)
     ELSE <<<<>>, <<>>, <<>>>>

\* str(idx) for idx >= 0
RECURSIVE NatToStr(_)
NatToStr(n) ==
  IF n < 10 THEN <<Digits[n + 1]>>
  ELSE NatToStr(n \div 10) \o <<Digits[(n % 10) + 1]>>

\* f"Answer {idx}:\n{ans}\n\n"
AnswerBlock(idx, ans) ==
  <<"A", "n", "s", "w", "e", "r", " ">> \o NatToStr(idx) \o <<":", "\n">>
    \o ans \o <<"\n", "\n">>

\* src/app/utils.py build_short_answers_text; the same loop in process_job.
build_short_answers_text(short_answers) ==
  Concat([i \in 1..Len(short_answers) |-> AnswerBlock(i, short_answers[i])])

\* --------------------------------------------------------- estimate_fit_score
SeniorHints == {"senior", "lead", "director", "executive"}

\* len(job.job_description) > 1500
LongDescription == 1500

\* An estimate that adds 10 points where the code adds 5.
EstimateWithDoubleBonus(seniority_hint, job_description) ==
  LET base0 == 70 * ScoreScale
      base1 == IF seniority_hint # "" /\ seniority_hint \in SeniorHints
               THEN base0 + 10 * ScoreScale ELSE base0
      base2 == IF Len(job_description) > LongDescription
               THEN base1 + 10 * ScoreScale ELSE base1
      capped == IF base2 < 100 * ScoreScale THEN base2 ELSE 100 * ScoreScale
  IN IF capped > 0 THEN capped ELSE 0

\* src/app/services/generation.py estimate_fit_score, in tenths of a point.
estimate_fit_score(seniority_hint, job_description) ==
  LET base0 == 70 * ScoreScale
      base1 == IF seniority_hint # "" /\ seniority_hint \in SeniorHints
               THEN base0 + 5 * ScoreScale ELSE base0
      base2 == IF Len(job_description) > LongDescription
               THEN base1 + 5 * ScoreScale ELSE base1
      capped == IF base2 < 100 * ScoreScale THEN base2 ELSE 100 * ScoreScale
  IN IF capped > 0 THEN capped ELSE 0

\* ------------------------------------------------------------- diagnostics
\* A record_error that uses append: the newest record goes to the right end
\* and a full deque drops its left end.
RecordErrorAppend(buffer, time, message) ==
  LET pushed == buffer \o <<[time |-> time, message |-> message]>>
  IN IF Len(pushed) > ErrorBufferMaxLen
     THEN SubSeq(pushed, 2, Len(pushed)) ELSE pushed

\* src/app/services/diagnostics.py record_error on ERROR_BUFFER, a
\* deque(maxlen=20): appendleft, and a full deque drops its right end.
record_error(buffer, time, message) ==
  LET pushed == <<[time |-> time, message |-> message]>> \o buffer
  IN IF Len(pushed) > ErrorBufferMaxLen
     THEN SubSeq(pushed, 1, ErrorBufferMaxLen) ELSE pushed

\* src/app/services/diagnostics.py get_recent_errors
get_recent_errors(buffer) == buffer

\* --------------------------------------------------------- get_recent_jobs
\* The characters of entry names in code point order, the order in which
\* sorted() compares paths.
NameAlphabet ==
  Digits \o Uppers \o <<"_">> \o Lowers

Ord(c) == CHOOSE i \in 1..Len(NameAlphabet) : NameAlphabet[i] = c

\* a < b for two names.
StrLess(a, b) ==
  LET n == IF Len(a) < Len(b) THEN Len(a) ELSE Len(b)
      diff == {i \in 1..n : a[i] # b[i]}
  IN IF diff = {} THEN Len(a) < Len(b)
     ELSE Ord(a[Min(diff)]) < Ord(b[Min(diff)])

\* sorted(OUTPUT_ROOT.iterdir(), reverse=True)
RECURSIVE SortedReverse(_)
SortedReverse(entries) ==
  IF entries = {} THEN <<>>
  ELSE LET last == CHOOSE e \in entries :
                     \A o \in entries \ {e} : StrLess(o.name, e.name)
       IN <<last>> \o SortedReverse(entries \ {last})

\* What meta.json of an entry is: "missing"; "unreadable" or "corrupt", for
\* which open or json.load raises; "scalar", a JSON text that is no object;
\* "object".
MetaKinds == {"missing", "unreadable", "corrupt", "scalar", "object"}

\* The dict appended to jobs.
JobSummary(entry) ==
  [folder |-> entry.name, company |-> entry.meta.company,
   title |-> entry.meta.title, fit_score |-> entry.meta.fit_score,
   fit_label |-> entry.meta.fit_label]

\* The for loop of get_recent_jobs over the entries still to visit. A JSON
\* text that is no object is loaded without error, and meta.get then raises
\* outside the try block.
RECURSIVE ScanEntries(_, _, _)
ScanEntries(todo, jobs, limit) ==
  IF todo = <<>> THEN [ok |-> TRUE, jobs |-> jobs]
  ELSE LET entry == Head(todo)
       IN IF ~entry.is_dir THEN ScanEntries(Tail(todo), jobs, limit)
          ELSE IF entry.kind = "missing" THEN ScanEntries(Tail(todo), jobs, limit)
          ELSE IF entry.kind \in {"unreadable", "corrupt"}
               THEN ScanEntries(Tail(todo), jobs, limit)
          ELSE IF entry.kind = "scalar" THEN [ok |-> FALSE, jobs |-> <<>>]
          ELSE LET appended == Append(jobs, JobSummary(entry))
               IN IF Len(appended) >= limit THEN [ok |-> TRUE, jobs |-> appended]
                  ELSE ScanEntries(Tail(todo), appended, limit)

\* src/main.py get_recent_jobs: ok is FALSE when the call raises.
get_recent_jobs(exists, entries, limit) ==
  IF ~exists THEN [ok |-> TRUE, jobs |-> <<>>]
  ELSE ScanEntries(SortedReverse(entries), <<>>, limit)

\* ------------------------------------------------------------------ system
VARIABLES
  now,           \* the wall clock, in seconds
  loop,          \* per server process, the request whose handler is running
  subs,          \* the submissions: request state and handler position
  dirs,          \* the directories under the output roots
  files,         \* the files in them
  ERROR_BUFFER,  \* diagnostics.ERROR_BUFFER, newest first
  errLog,        \* history: every record_error call, oldest first
  input,         \* the argument of the function under test
  output         \* its result

vars == <<now, loop, subs, dirs, files, ERROR_BUFFER, errLog, input, output>>

sysVars == <<now, loop, subs, dirs, files, ERROR_BUFFER, errLog>>

Subs == 1..MaxSubs

\* The routes that end in process_job (src/main.py) and the one that ends in
\* generate_full_package (src/app/routers/ui.py).
MainRoutes == {"main:/submit", "main:/generate_package"}

AppRoute == "app:/submit"

\* OUTPUT_ROOT of the module that serves the route.
OutputRoot(route) == IF route = AppRoute THEN "job-packages" ELSE "/app/output"

\* Form values of the submissions.
Companies == {<<"A">>, <<"a">>}

Titles == {<<"x">>}

Hints == {"senior"}

Descriptions == {<<"d">>}

\* An exception message: a fixed text and the snippet of raw output it quotes.
Msg(text, snippet) == [text |-> text, snippet |-> snippet]

NoMsg == Msg("", <<>>)

NoDir == <<>>

NoPackage ==
  [fit_score |-> 0, fit_label |-> "", reasoning |-> <<>>, cover_letter |-> <<>>,
   resume |-> <<>>, short_answers |-> <<>>]

IdleSub ==
  [route |-> "", company |-> <<>>, title |-> <<>>, seniority_hint |-> "",
   job_description |-> <<>>, pc |-> "idle", stamp |-> 0,
   calls |-> <<>>, replies |-> <<>>, raw |-> <<>>, pkg |-> NoPackage,
   dir |-> NoDir, created |-> FALSE, wrote |-> {}, status |-> 0,
   message |-> NoMsg, failure |-> NoMsg, snapshot |-> {}]

\* The submission once its handler has returned: the request's values and the
\* handler's locals are gone; what it did and what it answered remain.
Ended(sub) ==
  [sub EXCEPT !.pc = "done", !.company = <<>>, !.title = <<>>,
              !.seniority_hint = "", !.job_description = <<>>, !.stamp = 0,
              !.raw = <<>>, !.pkg = NoPackage]

\* Replies of the model server to process_job's one chat call.
GoodReply ==
  TagFitScore \o <<" ", "8", "8", "\n">> \o TagResume \o <<"\n", "r", "\n">>
    \o TagEndResume \o <<"\n">> \o TagShortAnswers \o <<"\n", "1", ")", " ", "a", "\n">>
    \o TagEndShortAnswers

BadReply == TagResume \o <<"\n", "r">>

MainReplies == {GoodReply, BadReply}

\* Replies of the model server to generate_full_package's calls.
AppReplies == {<<"p", "\n", "\n", "q">>}

\* The model calls of generate_full_package, in order.
AppCalls == <<"generate_resume", "generate_cover_letter", "generate_short_answers">>

\* Path.write_text: the file is created or replaced.
WriteFile(fs, root, dir, name, by, content) ==
  {f \in fs : ~(f.root = root /\ f.dir = dir /\ f.name = name)}
    \cup {[root |-> root, dir |-> dir, name |-> name, by |-> by,
           content |-> content]}

\* The dict json.dumps writes to meta.json; no dict in a text file.
NoMeta ==
  [company |-> <<>>, title |-> <<>>, seniority_hint |-> "", fit_score |-> 0,
   fit_label |-> "", folder |-> <<>>]

\* The content of a file written with write_text(text).
TextFile(text) == [text |-> text, meta |-> NoMeta]

\* The content of a file written with write_text(json.dumps(meta)).
JsonFile(meta) == [text |-> <<>>, meta |-> meta]

\* Path.write_text raising: open() failed and the file is as it was, or the
\* file was opened, which empties it, and the write failed.
FailedWrite(fs, root, dir, name, by) ==
  {fs, WriteFile(fs, root, dir, name, by, TextFile(<<>>))}

\* The files of one folder: name, writer and content.
FolderFiles(fs, root, dir) ==
  {[name |-> f.name, by |-> f.by, content |-> f.content] :
     f \in {g \in fs : g.root = root /\ g.dir = dir}}

\* Nothing has been computed yet.
NoOutput == [fn |-> "none"]

\* The servers have just started: no request yet, empty output roots.
SysInit ==
  /\ now = 0
  /\ loop = [main |-> 0, app |-> 0]
  /\ subs = [s \in Subs |-> IdleSub]
  /\ dirs = {}
  /\ files = {}
  /\ ERROR_BUFFER = <<>>
  /\ errLog = <<>>

Init ==
  /\ SysInit
  /\ input = <<>>
  /\ output = NoOutput

\* A second passes.
Tick ==
  /\ now < MaxClock
  /\ now' = now + 1
  /\ UNCHANGED <<loop, subs, dirs, files, ERROR_BUFFER, errLog, input, output>>

\* ------------------------------------------------- src/main.py: process_job
\* What the request boundary of src/main.py answers when process_job raises:
\* submit renders an HTTPException with its status and detail, and
\* generate_package leaves it to the framework, which does the same; any other
\* exception is caught by neither and becomes the framework's bare 500.
MainErrorResponse(exc) ==
  IF exc.type = "HTTPException"
  THEN [status |-> exc.status_code, message |-> exc.msg]
  ELSE [status |-> 500, message |-> Msg("Internal Server Error", <<>>)]

\* The submission after its handler ended with the exception.
MainRaised(sub, exc) ==
  [Ended(sub) EXCEPT !.failure = exc.msg,
                     !.status = MainErrorResponse(exc).status,
                     !.message = MainErrorResponse(exc).message]

OSError == [type |-> "OSError", status_code |-> 0, msg |-> Msg("OSError", <<>>)]

HTTPException(status_code, msg) ==
  [type |-> "HTTPException", status_code |-> status_code, msg |-> msg]

\* Submissions are numbered in the order their requests arrive.
NextArrival(s) ==
  /\ subs[s].pc = "idle"
  /\ \A t \in Subs : t < s => subs[t].pc # "idle"

\* A request reaches submit or generate_package: JobInput is built and
\* process_job starts. The handlers are coroutines that call the synchronous
\* process_job, so the process serves nothing else until it returns.
MainStart(s) ==
  /\ NextArrival(s)
  /\ loop.main = 0
  /\ \E route \in MainRoutes, company \in Companies, title \in Titles,
        hint \in Hints, jd \in Descriptions :
       subs' = [subs EXCEPT ![s] =
                  [@ EXCEPT !.route = route, !.company = company,
                            !.title = title, !.seniority_hint = hint,
                            !.job_description = jd, !.pc = "call"]]
  /\ loop' = [loop EXCEPT !.main = s]
  /\ UNCHANGED <<now, dirs, files, ERROR_BUFFER, errLog, input, output>>

\* A call step that tries the model a second time when the first call fails.
MainCallOllamaRetry(s) ==
  /\ subs[s].pc = "call"
  /\ subs[s].route \in MainRoutes
  /\ \/ /\ \E raw \in MainReplies :
             subs' = [subs EXCEPT ![s] =
                        [@ EXCEPT !.calls = Append(@, "call_ollama"),
                                  !.replies = Append(@, "ok"),
                                  !.raw = raw, !.pc = "parse"]]
        /\ UNCHANGED loop
     \/ /\ subs[s].calls = <<>>
        /\ subs' = [subs EXCEPT ![s] =
                      [@ EXCEPT !.calls = Append(@, "call_ollama"),
                                !.replies = Append(@, "failed")]]
        /\ UNCHANGED loop
     \/ /\ subs[s].calls # <<>>
        /\ subs' = [subs EXCEPT ![s] =
                      MainRaised([@ EXCEPT !.calls = Append(@, "call_ollama"),
                                           !.replies = Append(@, "failed")],
                                 HTTPException(500,
                                   Msg("Error talking to Ollama", <<>>)))]
        /\ loop' = [loop EXCEPT !.main = 0]
  /\ UNCHANGED <<now, dirs, files, ERROR_BUFFER, errLog, input, output>>

\* raw = call_ollama(...): one request; a transport error, an error status or
\* an empty content raises, and process_job turns that into an HTTPException.
MainCallOllama(s) ==
  /\ subs[s].pc = "call"
  /\ subs[s].route \in MainRoutes
  /\ \/ /\ \E raw \in MainReplies :
             subs' = [subs EXCEPT ![s] =
                        [@ EXCEPT !.calls = Append(@, "call_ollama"),
                                  !.replies = Append(@, "ok"),
                                  !.raw = raw, !.pc = "parse"]]
        /\ UNCHANGED loop
     \/ /\ subs' = [subs EXCEPT ![s] =
                      MainRaised([@ EXCEPT !.calls = Append(@, "call_ollama"),
                                           !.replies = Append(@, "failed")],
                                 HTTPException(500,
                                   Msg("Error talking to Ollama", <<>>)))]
        /\ loop' = [loop EXCEPT !.main = 0]
  /\ UNCHANGED <<now, dirs, files, ERROR_BUFFER, errLog, input, output>>

\* parse_model_output(raw) and map_score_to_label.
MainParse(s) ==
  /\ subs[s].pc = "parse"
  /\ LET parsed == parse_model_output(subs[s].raw)
     IN IF parsed.ok
        THEN /\ subs' = [subs EXCEPT ![s] =
                           [@ EXCEPT !.pc = "mkdir",
                                     !.pkg = [fit_score |-> parsed.fit_score,
                                              fit_label |-> map_score_to_label(parsed.fit_score),
                                              reasoning |-> parsed.reasoning,
                                              cover_letter |-> parsed.cover_letter,
                                              resume |-> parsed.resume,
                                              short_answers |-> parsed.short_answers]]]
             /\ UNCHANGED loop
        ELSE /\ subs' = [subs EXCEPT ![s] =
                           MainRaised(@, HTTPException(parsed.status_code, parsed.detail))]
             /\ loop' = [loop EXCEPT !.main = 0]
  /\ UNCHANGED <<now, dirs, files, ERROR_BUFFER, errLog, input, output>>

\* create_job_folder: the stamp is read now; mkdir(parents=True, exist_ok=True)
\* creates the folder or accepts the one that is there, or fails.
MainCreateFolder(s) ==
  /\ subs[s].pc = "mkdir"
  /\ subs[s].route \in MainRoutes
  /\ LET root == OutputRoot(subs[s].route)
         name == MainFolderName(subs[s].company, subs[s].title, now)
         folder == [root |-> root, dir |-> name]
     IN \/ /\ dirs' = dirs \cup {folder}
           /\ subs' = [subs EXCEPT ![s] =
                         [@ EXCEPT !.stamp = now, !.dir = name,
                                   !.created = (folder \notin dirs),
                                   !.pc = "cover_letter.txt"]]
           /\ UNCHANGED loop
        \/ /\ subs' = [subs EXCEPT ![s] = MainRaised(@, OSError)]
           /\ loop' = [loop EXCEPT !.main = 0]
           /\ UNCHANGED dirs
  /\ UNCHANGED <<now, files, ERROR_BUFFER, errLog, input, output>>

\* An order of writes with meta.json before the resume and the answers.
MainFileOrderMetaEarly ==
  <<"cover_letter.txt", "meta.json", "resume_full.txt", "short_answers.txt">>

\* The files process_job writes, in its order.
MainFileOrder ==
  <<"cover_letter.txt", "resume_full.txt", "short_answers.txt", "meta.json">>

\* The position after the file at position i of the order.
NextPc(order, i) == IF i < Len(order) THEN order[i + 1] ELSE "return"

\* What process_job writes to the file.
MainContent(sub, name) ==
  CASE name = "cover_letter.txt" -> TextFile(sub.pkg.cover_letter)
    [] name = "resume_full.txt" -> TextFile(sub.pkg.resume)
    [] name = "short_answers.txt" ->
         TextFile(build_short_answers_text(sub.pkg.short_answers))
    [] name = "meta.json" ->
         JsonFile([company |-> sub.company, title |-> sub.title,
                   seniority_hint |-> sub.seniority_hint,
                   fit_score |-> sub.pkg.fit_score,
                   fit_label |-> sub.pkg.fit_label,
                   folder |-> sub.dir])

\* One write_text of process_job: the file is written, or the write fails.
MainWrite(s) ==
  /\ subs[s].route \in MainRoutes
  /\ \E i \in 1..Len(MainFileOrder) :
       /\ subs[s].pc = MainFileOrder[i]
       /\ \/ /\ files' = WriteFile(files, OutputRoot(subs[s].route), subs[s].dir,
                                   MainFileOrder[i], s,
                                   MainContent(subs[s], MainFileOrder[i]))
             /\ subs' = [subs EXCEPT ![s] =
                           [@ EXCEPT !.wrote = @ \cup {MainFileOrder[i]},
                                     !.pc = NextPc(MainFileOrder, i)]]
             /\ UNCHANGED loop
          \/ /\ subs' = [subs EXCEPT ![s] = MainRaised(@, OSError)]
             /\ loop' = [loop EXCEPT !.main = 0]
             /\ files' \in FailedWrite(files, OutputRoot(subs[s].route),
                                       subs[s].dir, MainFileOrder[i], s)
  /\ UNCHANGED <<now, dirs, ERROR_BUFFER, errLog, input, output>>

\* process_job returns its PackageOutput and the handler answers 200.
MainReturn(s) ==
  /\ subs[s].pc = "return"
  /\ subs[s].route \in MainRoutes
  /\ subs' = [subs EXCEPT ![s] =
                [Ended(@) EXCEPT !.status = 200,
                                 !.snapshot = FolderFiles(files, OutputRoot(subs[s].route),
                                                          subs[s].dir)]]
  /\ loop' = [loop EXCEPT !.main = 0]
  /\ UNCHANGED <<now, dirs, files, ERROR_BUFFER, errLog, input, output>>

\* ------------------------- src/app: ui.submit and generate_full_package
\* The members of the SeniorityHint enumeration.
SeniorityLevels ==
  {"junior", "intermediate", "senior", "lead", "director", "executive"}

\* SeniorityHint(seniority_hint), None for an empty or unknown value.
ParseHint(hint) == IF hint \in SeniorityLevels THEN hint ELSE ""

\* The submission after the except branch of ui.submit answered for it.
AppRaised(sub, msg) ==
  [Ended(sub) EXCEPT !.failure = msg, !.status = 500, !.message = msg]

\* An except branch that answers the 500 page without record_error.
AppExceptUnrecorded(s, sub, msg) ==
  /\ subs' = [subs EXCEPT ![s] = AppRaised(sub, msg)]
  /\ UNCHANGED <<ERROR_BUFFER, errLog>>
  /\ loop' = [loop EXCEPT !.app = 0]

\* except Exception as exc: record_error(exc), get_dashboard_stats(), then the
\* 500 page with str(exc); when reading the statistics raises inside the
\* except branch, the framework answers its bare 500 instead.
AppExcept(s, sub, msg) ==
  /\ \E page \in {msg, MainErrorResponse(OSError).message} :
       subs' = [subs EXCEPT ![s] = [AppRaised(sub, msg) EXCEPT !.message = page]]
  /\ ERROR_BUFFER' = record_error(ERROR_BUFFER, now, msg)
  /\ errLog' = Append(errLog, [sub |-> s, time |-> now, message |-> msg])
  /\ loop' = [loop EXCEPT !.app = 0]

\* A request reaches ui.submit: JobInput is built, generate_full_package
\* starts and reads the timestamp.
AppStart(s) ==
  /\ NextArrival(s)
  /\ loop.app = 0
  /\ \E company \in Companies, title \in Titles, hint \in Hints,
        jd \in Descriptions :
       subs' = [subs EXCEPT ![s] =
                  [@ EXCEPT !.route = AppRoute, !.company = company,
                            !.title = title, !.seniority_hint = ParseHint(hint),
                            !.job_description = jd, !.stamp = now,
                            !.pc = "mkdir"]]
  /\ loop' = [loop EXCEPT !.app = s]
  /\ UNCHANGED <<now, dirs, files, ERROR_BUFFER, errLog, input, output>>

\* OUTPUT_ROOT.mkdir and job_dir.mkdir(parents=True, exist_ok=True), before
\* any model call.
AppCreateFolder(s) ==
  /\ subs[s].pc = "mkdir"
  /\ subs[s].route = AppRoute
  /\ LET name == AppFolderName(subs[s].company, subs[s].title, subs[s].stamp)
         folder == [root |-> OutputRoot(AppRoute), dir |-> name]
     IN \/ /\ dirs' = dirs \cup {folder}
           /\ subs' = [subs EXCEPT ![s] =
                         [@ EXCEPT !.dir = name, !.created = (folder \notin dirs),
                                   !.pc = "call"]]
           /\ UNCHANGED <<loop, ERROR_BUFFER, errLog>>
        \/ /\ AppExcept(s, subs[s], OSError.msg)
           /\ UNCHANGED dirs
  /\ UNCHANGED <<now, files, input, output>>

\* await generate_resume / generate_cover_letter / generate_short_answers: the
\* request to the model server is sent and the coroutine yields the loop.
AppCall(s) ==
  /\ subs[s].pc = "call"
  /\ subs[s].route = AppRoute
  /\ Len(subs[s].calls) < Len(AppCalls)
  /\ subs' = [subs EXCEPT ![s] =
                [@ EXCEPT !.calls = Append(@, AppCalls[Len(@) + 1]),
                          !.pc = "await"]]
  /\ loop' = [loop EXCEPT !.app = 0]
  /\ UNCHANGED <<now, dirs, files, ERROR_BUFFER, errLog, input, output>>

\* The package after the reply to call number k is stored.
AppStoreReply(pkg, k, reply) ==
  CASE k = 1 -> [pkg EXCEPT !.resume = reply]
    [] k = 2 -> [pkg EXCEPT !.cover_letter = reply]
    [] k = 3 -> [pkg EXCEPT !.short_answers = generate_short_answers(reply)]

\* A package step that starts writing as soon as the first call returned.
AppAfterReplyEager(k) == "resume_full.txt"

\* The position after the awaited call number k has returned.
AppAfterReply(k) == IF k < Len(AppCalls) THEN "call" ELSE "resume_full.txt"

\* ollama_chat resumes: it returns the reply, or raises on a transport error,
\* an error status or an empty response.
AppReply(s) ==
  /\ subs[s].pc = "await"
  /\ loop.app = 0
  /\ \/ /\ \E reply \in AppReplies :
             subs' = [subs EXCEPT ![s] =
                        [@ EXCEPT !.replies = Append(@, "ok"),
                                  !.pkg = AppStoreReply(@, Len(subs[s].calls), reply),
                                  !.pc = AppAfterReply(Len(subs[s].calls))]]
        /\ loop' = [loop EXCEPT !.app = s]
        /\ UNCHANGED <<ERROR_BUFFER, errLog>>
     \/ AppExcept(s, [subs[s] EXCEPT !.replies = Append(@, "failed")],
                  Msg("ollama_chat failed", <<>>))
  /\ UNCHANGED <<now, dirs, files, input, output>>

\* The files generate_full_package writes, in its order.
AppFileOrder ==
  <<"resume_full.txt", "cover_letter.txt", "short_answers.txt", "meta.json">>

\* fit_score and fit_label, computed between the answers file and meta.json.
AppScored(sub) ==
  LET score == estimate_fit_score(sub.seniority_hint, sub.job_description)
  IN [sub EXCEPT !.pkg.fit_score = score, !.pkg.fit_label = label_fit(score)]

\* What generate_full_package writes to the file.
AppContent(sub, name) ==
  CASE name = "resume_full.txt" -> TextFile(sub.pkg.resume)
    [] name = "cover_letter.txt" -> TextFile(sub.pkg.cover_letter)
    [] name = "short_answers.txt" ->
         TextFile(build_short_answers_text(sub.pkg.short_answers))
    [] name = "meta.json" ->
         JsonFile([company |-> sub.company, title |-> sub.title,
                   seniority_hint |-> sub.seniority_hint,
                   fit_score |-> AppScored(sub).pkg.fit_score,
                   fit_label |-> AppScored(sub).pkg.fit_label,
                   folder |-> sub.dir])

\* One write_text of generate_full_package: the file is written, or the write
\* fails.
AppWrite(s) ==
  /\ subs[s].route = AppRoute
  /\ \E i \in 1..Len(AppFileOrder) :
       /\ subs[s].pc = AppFileOrder[i]
       /\ \/ /\ files' = WriteFile(files, OutputRoot(AppRoute), subs[s].dir,
                                   AppFileOrder[i], s,
                                   AppContent(subs[s], AppFileOrder[i]))
             /\ subs' = [subs EXCEPT ![s] =
                           [(IF AppFileOrder[i] = "meta.json" THEN AppScored(@) ELSE @)
                              EXCEPT !.wrote = @ \cup {AppFileOrder[i]},
                                     !.pc = NextPc(AppFileOrder, i)]]
             /\ UNCHANGED <<loop, ERROR_BUFFER, errLog>>
          \/ /\ AppExcept(s, subs[s], OSError.msg)
             /\ files' \in FailedWrite(files, OutputRoot(AppRoute), subs[s].dir,
                                       AppFileOrder[i], s)
  /\ UNCHANGED <<now, dirs, input, output>>

\* generate_full_package returns its result; ui.submit reads the dashboard
\* statistics inside its try block and answers 200, or that read raises.
AppReturn(s) ==
  /\ subs[s].pc = "return"
  /\ subs[s].route = AppRoute
  /\ \/ /\ subs' = [subs EXCEPT ![s] =
                      [Ended(@) EXCEPT !.status = 200,
                                       !.snapshot = FolderFiles(files, OutputRoot(AppRoute),
                                                                subs[s].dir)]]
        /\ loop' = [loop EXCEPT !.app = 0]
        /\ UNCHANGED <<ERROR_BUFFER, errLog>>
     \/ AppExcept(s, subs[s], OSError.msg)
  /\ UNCHANGED <<now, dirs, files, input, output>>

\* The entries of an output root as get_recent_jobs meets them: every folder
\* is a directory, and its meta.json is an object unless a failed write left
\* it empty.
Listing(root) ==
  {LET metas == {f \in files : f.root = root /\ f.dir = d.dir /\ f.name = "meta.json"}
   IN [name |-> d.dir, is_dir |-> TRUE,
       kind |-> IF metas = {} THEN "missing"
                ELSE IF \E f \in metas : f.content.meta = NoMeta THEN "corrupt"
                ELSE "object",
       meta |-> IF metas = {} THEN NoMeta ELSE (CHOOSE f \in metas : TRUE).content.meta]
   : d \in {e \in dirs : e.root = root}}

\* limit=20 of index.
IndexLimit == 20

\* GET / of src/main.py: index calls get_recent_jobs(limit=20). The output
\* root exists once a folder was made under it.
Index ==
  /\ loop.main = 0
  /\ LET root == OutputRoot("main:/submit")
     IN output' = [fn |-> "get_recent_jobs",
                   result |-> get_recent_jobs(Listing(root) # {}, Listing(root),
                                              IndexLimit)]
  /\ UNCHANGED <<sysVars, input>>

Next ==
  \/ Tick
  \/ Index
  \/ \E s \in Subs : MainStart(s)
  \/ \E s \in Subs : MainCallOllama(s)
  \/ \E s \in Subs : MainParse(s)
  \/ \E s \in Subs : MainCreateFolder(s)
  \/ \E s \in Subs : MainWrite(s)
  \/ \E s \in Subs : MainReturn(s)
  \/ \E s \in Subs : AppStart(s)
  \/ \E s \in Subs : AppCreateFolder(s)
  \/ \E s \in Subs : AppCall(s)
  \/ \E s \in Subs : AppReply(s)
  \/ \E s \in Subs : AppWrite(s)
  \/ \E s \in Subs : AppReturn(s)

\* The two servers taking submissions while the clock runs.
Spec == Init /\ [][Next]_vars

\* ----------------------------------------------- the parser on model outputs
\* All concatenations of at most n of the tokens.
TokenTexts(tokens, n) == {Concat(ts) : ts \in SeqsUpTo(tokens, n)}

\* Pieces of a fit score line.
FitTokens == {TagFitScore, <<" ">>, <<"7">>, <<".">>, <<"-">>, <<"x">>}

\* The section tags and what stands between them.
SectionTokens ==
  {TagReasoning, TagCoverLetter, TagEndCoverLetter, TagResume, TagEndResume,
   TagShortAnswers, TagEndShortAnswers, NL, <<"x">>}

\* Lines of a SHORT_ANSWERS block.
AnswerLineTokens ==
  {<<"a", "\n">>, <<"1", ")", " ", "b", "\n">>, <<"2", "\n">>, <<" ", "\n">>}

\* Paragraphs of a reply to generate_short_answers.
ParagraphTokens ==
  {<<"p", "\n", "\n">>, <<"q", "\n", "\n">>, <<" ", "\n", "\n">>, <<"r", "\n">>}

FitLine == TagFitScore \o <<" ", "8", "8", "\n">>

\* The four sections: start tag and end tag.
Sections ==
  {<<TagReasoning, TagCoverLetter>>, <<TagCoverLetter, TagEndCoverLetter>>,
   <<TagResume, TagEndResume>>, <<TagShortAnswers, TagEndShortAnswers>>}

\* Texts around one section: its tags, newlines and content, in any order.
SectionTexts ==
  UNION {TokenTexts({sec[1], sec[2], NL, <<"x">>}, MaxExtractTokens) :
           sec \in Sections}

\* The model outputs given to the parser.
ParseInputs ==
  TokenTexts(FitTokens, MaxFitTokens)
    \cup {FitLine \o t : t \in TokenTexts(SectionTokens, MaxSectionTokens)}
    \cup {FitLine \o t : t \in SectionTexts}
    \cup {FitLine \o TagShortAnswers \o NL \o t :
            t \in TokenTexts(AnswerLineTokens, MaxAnswerTokens)}
    \cup TokenTexts(ParagraphTokens, MaxAnswerTokens)
    \cup {[i \in 1..(SnippetLen + k) |-> "x"] : k \in 0..1}

InitParse ==
  /\ SysInit
  /\ input \in ParseInputs
  /\ output = NoOutput

\* parse_model_output(raw) as process_job calls it.
ApplyParse ==
  /\ output = NoOutput
  /\ output' = [fn |-> "parse_model_output", result |-> parse_model_output(input)]
  /\ UNCHANGED <<sysVars, input>>

\* The tail of generate_short_answers on the reply ollama_chat returned;
\* ollama_chat raises on an empty reply.
ApplyShortAnswers ==
  /\ output = NoOutput
  /\ input # <<>>
  /\ output' = [fn |-> "generate_short_answers",
                result |-> generate_short_answers(input)]
  /\ UNCHANGED <<sysVars, input>>

NextParse == ApplyParse \/ ApplyShortAnswers

\* The parsers applied to every model output of the bounded families.
SpecParse == InitParse /\ [][NextParse]_vars

\* ------------------------------------------------------------ the labelers
\* Scores from -10 to MaxScore points in steps of half a point.
ScoreSamples == {5 * k : k \in (-20)..(2 * MaxScore)}

InitLabel ==
  /\ SysInit
  /\ input \in {<<a, b>> : a \in ScoreSamples, b \in ScoreSamples}
  /\ input[1] <= input[2]
  /\ output = NoOutput

\* map_score_to_label on both scores.
ApplyMapScore ==
  /\ output = NoOutput
  /\ output' = [fn |-> "map_score_to_label",
                result |-> <<map_score_to_label(input[1]),
                             map_score_to_label(input[2])>>]
  /\ UNCHANGED <<sysVars, input>>

\* label_fit on both scores.
ApplyLabelFit ==
  /\ output = NoOutput
  /\ output' = [fn |-> "label_fit",
                result |-> <<label_fit(input[1]), label_fit(input[2])>>]
  /\ UNCHANGED <<sysVars, input>>

NextLabel == ApplyMapScore \/ ApplyLabelFit

\* The labelers applied to every ordered pair of sampled scores.
SpecLabel == InitLabel /\ [][NextLabel]_vars

\* --------------------------------------------------------- the error buffer
\* A second passes for the diagnostics module.
ErrTick ==
  /\ now < MaxErrClock
  /\ now' = now + 1
  /\ UNCHANGED <<loop, subs, dirs, files, ERROR_BUFFER, errLog, input, output>>

\* A request fails: record_error(exc), then get_dashboard_stats reads the
\* buffer for the page. Every exception carries its own message.
FailingRequest ==
  /\ Len(errLog) < MaxErrors
  /\ LET msg == Msg("exception", NatToStr(Len(errLog) + 1))
     IN /\ ERROR_BUFFER' = record_error(ERROR_BUFFER, now, msg)
        /\ errLog' = Append(errLog, [sub |-> 0, time |-> now, message |-> msg])
  /\ output' = [fn |-> "get_recent_errors",
                result |-> get_recent_errors(ERROR_BUFFER')]
  /\ UNCHANGED <<now, loop, subs, dirs, files, input>>

\* The dashboard is opened: get_dashboard_stats reads the buffer.
Dashboard ==
  /\ output' = [fn |-> "get_recent_errors",
                result |-> get_recent_errors(ERROR_BUFFER)]
  /\ UNCHANGED <<sysVars, input>>

NextErr == ErrTick \/ FailingRequest \/ Dashboard

\* Requests failing one after another, past the capacity of the buffer.
SpecErr == Init /\ [][NextErr]_vars
\* ---------------------------------------- get_recent_jobs on its own
\* Names of entries of the output root, no two alike.
EntryNames == <<<<"2", "_", "a">>, <<"2", "_", "B">>, <<"1", "0">>, <<"9">>, <<"2">>>>

\* The dicts of the meta.json files that hold an object.
EntryMeta(i) ==
  [company |-> <<"c">>, title |-> <<"t">>, seniority_hint |-> "",
   fit_score |-> 10 * i, fit_label |-> "Low fit", folder |-> EntryNames[i]]

\* What one name can be in the output root: a plain file, or a directory
\* with one of the kinds of meta.json.
EntryStates(i) ==
  {[name |-> EntryNames[i], is_dir |-> FALSE, kind |-> "missing", meta |-> NoMeta]}
    \cup {[name |-> EntryNames[i], is_dir |-> TRUE, kind |-> k,
           meta |-> IF k = "object" THEN EntryMeta(i) ELSE NoMeta] : k \in MetaKinds}

\* The output roots: every choice of absent or present for each name.
Listings ==
  {{f[i] : i \in {j \in 1..MaxEntries : f[j].name # <<>>}} :
     f \in [1..MaxEntries ->
              UNION {EntryStates(i) : i \in 1..MaxEntries}
                \cup {[name |-> <<>>, is_dir |-> FALSE, kind |-> "missing",
                       meta |-> NoMeta]}]}

\* One name per entry.
WellNamed(entries) ==
  \A e1, e2 \in entries : e1.name = e2.name => e1 = e2

JobsInputs ==
  {[exists |-> TRUE, entries |-> l, limit |-> n] :
     l \in {x \in Listings : WellNamed(x)}, n \in 0..MaxLimit}
    \cup {[exists |-> FALSE, entries |-> {}, limit |-> n] : n \in 0..MaxLimit}

InitJobs ==
  /\ SysInit
  /\ input \in JobsInputs
  /\ output = NoOutput

ApplyRecentJobs ==
  /\ output.fn = "none"
  /\ output' = [fn |-> "get_recent_jobs",
                result |-> get_recent_jobs(input.exists, input.entries, input.limit)]
  /\ UNCHANGED <<sysVars, input>>

NextJobs == ApplyRecentJobs

\* get_recent_jobs called on every output root of the bounds.
SpecJobs == InitJobs /\ [][NextJobs]_vars

\* ------------------------------------------------ sanitize_part on its own
\* Characters of company names and titles: a capital, a small letter, a
\* digit, whitespace, punctuation and the underscore.
NameChars == {"A", "b", "7", " ", ",", "_"}

SanitizeInputs == SeqsUpTo(NameChars, MaxNameLen)

InitSanitize ==
  /\ SysInit
  /\ input \in SanitizeInputs
  /\ output = NoOutput

\* sanitize_part of src/app/utils.py, with the fallbacks of its callers and
\* its default.
ApplyAppSanitize ==
  /\ \E fallback \in {FallbackCompany, FallbackTitle, FallbackUntitled} :
       output' = [fn |-> "app.sanitize_part", fallback |-> fallback,
                  result |-> AppSanitizePart(input, fallback)]
  /\ UNCHANGED <<sysVars, input>>

\* sanitize_part of src/main.py.
ApplyMainSanitize ==
  /\ output' = [fn |-> "main.sanitize_part", fallback |-> FallbackJob,
                result |-> MainSanitizePart(input)]
  /\ UNCHANGED <<sysVars, input>>

NextSanitize == ApplyAppSanitize \/ ApplyMainSanitize

\* Both sanitizers applied to every name of the bounds.
SpecSanitize == InitSanitize /\ [][NextSanitize]_vars

\* --------------------------------------------- clean_model_text on its own
\* Pieces of texts with markdown links: brackets, whole links, a link tail,
\* a letter, a literal escape sequence and a code fence.
LinkTokens ==
  {<<"[">>, <<"]">>, <<"(">>, <<"a">>,
   <<"[", "a", "]", "(", "b", ")">>, <<"]", "(", "c", ")">>,
   <<"\\", "n">>, CodeFence}

CleanInputs == TokenTexts(LinkTokens, MaxLinkTokens)

InitClean ==
  /\ SysInit
  /\ input \in CleanInputs
  /\ output = NoOutput

ApplyClean ==
  /\ output.fn = "none"
  /\ output' = [fn |-> "clean_model_text", result |-> clean_model_text(input)]
  /\ UNCHANGED <<sysVars, input>>

NextClean == ApplyClean

\* clean_model_text applied to every text of the bounds.
SpecClean == InitClean /\ [][NextClean]_vars

\* ------------------------------------------- the estimated score on its own
\* Values of the seniority_hint form field: the six levels, none, and a word
\* that is no level.
HintValues == SeniorityLevels \cup {"", "boss"}

\* Job descriptions: short ones, and ones around 1500 characters.
DescriptionLengths ==
  (0..MaxShortDescription)
    \cup ((LongDescription - 1)..(LongDescription + MaxOverLong))

ScoreInputs ==
  {[seniority_hint |-> h, job_description |-> [i \in 1..n |-> "d"]] :
     h \in HintValues, n \in DescriptionLengths}

InitScore ==
  /\ SysInit
  /\ input \in ScoreInputs
  /\ output = NoOutput

\* ui.submit parses the hint; generate_full_package computes fit_score and
\* fit_label and puts them in the dict it writes to meta.json and in its
\* result.
ApplyEstimate ==
  /\ output.fn = "none"
  /\ LET sub == [IdleSub EXCEPT !.route = AppRoute,
                                !.seniority_hint = ParseHint(input.seniority_hint),
                                !.job_description = input.job_description]
         meta == AppContent(sub, "meta.json").meta
     IN output' = [fn |-> "estimate_fit_score",
                   result |-> [meta_fit_score |-> meta.fit_score,
                               meta_fit_label |-> meta.fit_label,
                               fit_score |-> AppScored(sub).pkg.fit_score,
                               fit_label |-> AppScored(sub).pkg.fit_label]]
  /\ UNCHANGED <<sysVars, input>>

NextScore == ApplyEstimate

\* The estimated score of every hint and description length of the bounds.
SpecScore == InitScore /\ [][NextScore]_vars

\* ================================================================== claims
\* The folder a submission resolved, with its output root.
FolderOf(s) == [root |-> OutputRoot(subs[s].route), dir |-> subs[s].dir]

\* C1: whatever the sequence or interleaving of submissions, no two distinct
\* submissions resolve to the same output folder.
C1_DistinctFolders ==
  \A s, t \in Subs :
    (s # t /\ subs[s].dir # NoDir /\ subs[t].dir # NoDir)
      => FolderOf(s) # FolderOf(t)

\* The answers parse_model_output finds in the SHORT_ANSWERS block of a text.
FoundLines(text) ==
  CollectAnswers(SplitLines(ExtractSection(text, TagShortAnswers, TagEndShortAnswers)))

\* The answers generate_short_answers finds in a reply.
FoundParts(text) == StrippedParts(Split(text, <<"\n", "\n">>))

\* C2: the short-answers list has exactly 3 entries for every model output,
\* from parse_model_output and from generate_short_answers.
C2_ThreeAnswers ==
  /\ (output.fn = "parse_model_output" /\ output.result.ok)
       => Len(output.result.short_answers) = 3
  /\ output.fn = "generate_short_answers" => Len(output.result) = 3

\* parse_model_output has met a block of more than three answer lines.
C2_Witness ==
  /\ output.fn = "parse_model_output"
  /\ output.result.ok
  /\ Len(FoundLines(input)) > 3

\* The list the claim describes: the first 3 found answers, or the found
\* answers followed by empty strings up to 3.
FirstThreeOrEmptyPadded(found) ==
  IF Len(found) >= 3 THEN SubSeq(found, 1, 3)
  ELSE found \o [i \in 1..(3 - Len(found)) |-> <<>>]

\* C3 as stated: both parsers return the first 3 found answers, or the found
\* answers right-padded with empty strings.
C3_PaddedWithEmpty ==
  /\ (output.fn = "parse_model_output" /\ output.result.ok)
       => output.result.short_answers = FirstThreeOrEmptyPadded(FoundLines(input))
  /\ output.fn = "generate_short_answers"
       => output.result = FirstThreeOrEmptyPadded(FoundParts(input))

\* C3 as amended: parse_model_output pads with empty strings;
\* generate_short_answers pads 1 or 2 found answers with copies of the last
\* found answer, and returns three empty strings when it finds none.
C3_PaddedAsCoded ==
  /\ (output.fn = "parse_model_output" /\ output.result.ok)
       => output.result.short_answers = FirstThreeOrEmptyPadded(FoundLines(input))
  /\ output.fn = "generate_short_answers"
       => LET found == FoundParts(input)
              k == Len(found)
          IN output.result =
               IF k >= 3 THEN SubSeq(found, 1, 3)
               ELSE IF k >= 1 THEN found \o [i \in 1..(3 - k) |-> found[k]]
               ELSE <<<<>>, <<>>, <<>>>>

\* generate_short_answers has met a reply of two different paragraphs.
C3_Witness ==
  /\ output.fn = "generate_short_answers"
  /\ Len(FoundParts(input)) = 2
  /\ FoundParts(input)[1] # FoundParts(input)[2]

\* The text holds "FIT_SCORE:", then any whitespace, then a digit.
HasFitScoreNumber(text) ==
  \E i \in 1..Len(text) : \E j \in (i + 10)..Len(text) :
    /\ SubSeq(text, i, i + 9) = TagFitScore
    /\ \A k \in (i + 10)..(j - 1) : text[k] \in {" ", "\n", "\t", "\r"}
    /\ text[j] \in {"0", "1", "2", "3", "4", "5", "6", "7", "8", "9"}

\* C4: parse_model_output fails, with a snippet of the raw text in its
\* message, exactly when the text holds no "FIT_SCORE:" followed by a number;
\* otherwise it succeeds, and every section whose start tag is absent comes
\* out empty (three empty answers for SHORT_ANSWERS).
C4_OnlyFitScoreIsFatal ==
  output.fn = "parse_model_output" =>
    LET r == output.result
    IN /\ r.ok <=> HasFitScoreNumber(input)
       /\ ~r.ok =>
            /\ Len(r.detail.snippet) = (IF Len(input) < 300 THEN Len(input) ELSE 300)
            /\ r.detail.snippet = SubSeq(input, 1, Len(r.detail.snippet))
       /\ r.ok =>
            /\ ~Contains(input, TagReasoning) => r.reasoning = <<>>
            /\ ~Contains(input, TagCoverLetter) => r.cover_letter = <<>>
            /\ ~Contains(input, TagResume) => r.resume = <<>>
            /\ ~Contains(input, TagShortAnswers)
                 => r.short_answers = <<<<>>, <<>>, <<>>>>

\* parse_model_output has failed on a text that holds the tag without a number.
C4_Witness ==
  /\ output.fn = "parse_model_output"
  /\ ~output.result.ok
  /\ Contains(input, TagFitScore)

\* The bucket of a label, lowest first.
Rank(label) ==
  CASE label \in {"Low fit", "Weak fit"} -> 0
    [] label = "Moderate fit" -> 1
    [] label = "Good fit" -> 2
    [] label = "Strong fit" -> 3

\* C5: both labelers are total and monotonic, with the stated buckets (scores
\* in tenths): >= 85 Strong; 70..85 (65..85 in label_fit) Good; 55..70
\* Moderate in map_score_to_label only; everything lower the lowest bucket.
C5_LabelMonotonic ==
  output.fn \in {"map_score_to_label", "label_fit"} =>
    LET a == input[1]
        la == output.result[1]
        lb == output.result[2]
    IN /\ Rank(la) <= Rank(lb)
       /\ a >= 850 => la = "Strong fit"
       /\ output.fn = "map_score_to_label" =>
            /\ (a >= 700 /\ a < 850) => la = "Good fit"
            /\ (a >= 550 /\ a < 700) => la = "Moderate fit"
            /\ a < 550 => la = "Low fit"
       /\ output.fn = "label_fit" =>
            /\ (a >= 650 /\ a < 850) => la = "Good fit"
            /\ a < 650 => la = "Weak fit"

\* map_score_to_label has labelled a negative score and one above 100.
C5_Witness ==
  /\ output.fn = "map_score_to_label"
  /\ input[1] < 0
  /\ input[2] > 1000
  /\ output.result = <<"Low fit", "Strong fit">>

\* C6: after n record_error calls the buffer holds the min(n, 20) most recent
\* records, and get_recent_errors returns them newest first.
C6_BufferHoldsNewest ==
  LET n == Len(errLog)
      m == IF n < 20 THEN n ELSE 20
  IN /\ Len(ERROR_BUFFER) = m
     /\ \A i \in 1..m :
          ERROR_BUFFER[i] = [time |-> errLog[n - i + 1].time,
                             message |-> errLog[n - i + 1].message]
     /\ output.fn = "get_recent_errors" => output.result = ERROR_BUFFER

\* More than 20 errors were recorded and the buffer was read after that.
C6_Witness ==
  /\ Len(errLog) > 20
  /\ output.fn = "get_recent_errors"
  /\ Len(output.result) = 20

\* The submission's handler ended with a failure raised inside the assembler.
Failed(s) == subs[s].pc = "done" /\ subs[s].failure # NoMsg

\* The record_error calls made for the submission.
RecordsOf(s) == {i \in 1..Len(errLog) : errLog[i].sub = s}

\* C7 as stated: on all three routes a failed submission is answered with a
\* non-2xx status carrying the failure's message, and exactly one Error
\* Record with that message is recorded.
C7_EveryFailureRecorded ==
  \A s \in Subs :
    Failed(s) =>
      /\ subs[s].status >= 300
      /\ subs[s].message = subs[s].failure
      /\ Cardinality(RecordsOf(s)) = 1
      /\ \A i \in RecordsOf(s) : errLog[i].message = subs[s].failure

\* C7 as amended: a failed submission is answered 500 and its handler has
\* given the process back. ui.submit records exactly one Error Record with
\* the failure's message, and its answer carries that message unless reading
\* the dashboard statistics fails too. The routes of
\* src/main.py record no Error Record; their answer carries the message of a
\* model-call or parse failure, and the framework's text for any other.
C7_FailuresAtBoundary ==
  \A s \in Subs :
    /\ subs[s].status = 200 => (subs[s].failure = NoMsg /\ RecordsOf(s) = {})
    /\ Failed(s) =>
         /\ subs[s].status = 500
         /\ loop.main # s /\ loop.app # s
         /\ subs[s].route = "app:/submit" =>
              /\ \/ subs[s].message = subs[s].failure
                 \/ subs[s].message.text = "Internal Server Error"
              /\ Cardinality(RecordsOf(s)) = 1
              /\ \A i \in RecordsOf(s) :
                   /\ errLog[i].message = subs[s].failure
                   /\ \E j \in 1..Len(ERROR_BUFFER) :
                        ERROR_BUFFER[j] = [time |-> errLog[i].time,
                                           message |-> subs[s].failure]
         /\ subs[s].route \in {"main:/submit", "main:/generate_package"} =>
              /\ RecordsOf(s) = {}
              /\ subs[s].failure.text # "OSError"
                   => subs[s].message = subs[s].failure
              /\ subs[s].failure.text = "OSError"
                   => subs[s].message.text = "Internal Server Error"

\* A model call of ui.submit has failed and a write of process_job has failed.
C7_Witness ==
  \E s, t \in Subs :
    /\ Failed(s) /\ subs[s].route = "app:/submit"
    /\ subs[s].failure.text = "ollama_chat failed"
    /\ subs[s].message = subs[s].failure
    /\ Failed(t) /\ subs[t].route = "main:/submit"
    /\ subs[t].failure.text = "OSError"

\* A model call of the submission has failed.
CallFailed(s) == \E i \in 1..Len(subs[s].replies) : subs[s].replies[i] = "failed"

\* parse_model_output has failed for the submission.
ParseFailed(s) ==
  subs[s].failure.text = "Could not find FIT_SCORE in model output"

\* Every model call of the submission has returned successfully, and in
\* process_job the reply has been parsed.
ModelWorkDone(s) ==
  IF subs[s].route = "app:/submit"
  THEN subs[s].replies = <<"ok", "ok", "ok">>
  ELSE /\ subs[s].replies = <<"ok">>
       /\ subs[s].pc # "parse"
       /\ ~ParseFailed(s)

\* C8 as stated: a submission's folder is created only after all its model
\* calls returned (and the parse succeeded); a submission whose model call or
\* parse fails creates no folder and writes no file.
C8_FolderAfterModelCalls ==
  \A s \in Subs :
    /\ subs[s].dir # NoDir => ModelWorkDone(s)
    /\ (CallFailed(s) \/ ParseFailed(s))
         => (subs[s].dir = NoDir /\ subs[s].wrote = {})

\* C8 as amended: process_job creates the folder only after its model call
\* returned and the parse succeeded; generate_full_package creates the folder
\* before its first model call; in both, a file is written only into the
\* created folder and only after every model call returned successfully, so a
\* failed model call or parse leaves no file.
C8_WritesAfterModelCalls ==
  \A s \in Subs :
    /\ subs[s].route \in {"main:/submit", "main:/generate_package"} =>
         /\ subs[s].dir # NoDir => ModelWorkDone(s)
         /\ (CallFailed(s) \/ ParseFailed(s)) => subs[s].dir = NoDir
    /\ subs[s].route = "app:/submit" =>
         (subs[s].calls # <<>> => subs[s].dir # NoDir)
    /\ subs[s].wrote # {} => (subs[s].dir # NoDir /\ ModelWorkDone(s))
    /\ (CallFailed(s) \/ ParseFailed(s)) => subs[s].wrote = {}

\* A model call of generate_full_package has failed after the submission
\* created its folder, which is left without a file.
C8_Witness ==
  \E s \in Subs :
    /\ subs[s].route = "app:/submit"
    /\ CallFailed(s)
    /\ subs[s].created
    /\ subs[s].wrote = {}
    /\ FolderFiles(files, OutputRoot(subs[s].route), subs[s].dir) = {}

\* C9: no model call is retried. process_job issues exactly one call;
\* generate_full_package issues at most three, resume, cover letter, short
\* answers in that order; a failed call is the submission's last.
C9_NoRetry ==
  \A s \in Subs :
    LET c == subs[s].calls
        r == subs[s].replies
    IN /\ Len(r) <= Len(c) /\ Len(c) <= Len(r) + 1
       /\ subs[s].route \in {"main:/submit", "main:/generate_package"} =>
            /\ Len(c) <= 1
            /\ subs[s].pc # "call" => c = <<"call_ollama">>
       /\ subs[s].route = "app:/submit" =>
            c = SubSeq(<<"generate_resume", "generate_cover_letter",
                         "generate_short_answers">>, 1, Len(c))
       /\ \A i \in 1..Len(r) :
            r[i] = "failed" => (i = Len(c) /\ subs[s].pc = "done")

\* The second model call of generate_full_package has failed and the third
\* was never issued.
C9_Witness ==
  \E s \in Subs :
    /\ subs[s].pc = "done"
    /\ subs[s].replies = <<"ok", "failed">>
    /\ subs[s].calls = <<"generate_resume", "generate_cover_letter">>

\* The names of the four files of a package.
PackageFiles ==
  {"resume_full.txt", "cover_letter.txt", "short_answers.txt", "meta.json"}

\* The text is three blocks headed "Answer 1:", "Answer 2:", "Answer 3:".
ThreeAnswerBlocks(text) ==
  LET head(n) == <<"A", "n", "s", "w", "e", "r", " ", n, ":", "\n">>
      p1 == Find(text, head("1"), 1)
      p2 == Find(text, head("2"), p1 + 1)
      p3 == Find(text, head("3"), p2 + 1)
  IN /\ p1 = 1 /\ p2 > p1 /\ p3 > p2
     /\ ~Contains(text, head("4"))
     /\ SubSeq(text, Len(text) - 1, Len(text)) = <<"\n", "\n">>

\* C10: every successful submission creates exactly one new folder, which on
\* return holds exactly the four files, all written by that submission, with
\* short_answers.txt the three "Answer N:" blocks.
C10_OwnNewFolder ==
  \A s \in Subs :
    subs[s].status = 200 =>
      /\ subs[s].created
      /\ {f.name : f \in subs[s].snapshot} = PackageFiles
      /\ \A f \in subs[s].snapshot :
           /\ f.by = s
           /\ f.name = "short_answers.txt" => ThreeAnswerBlocks(f.content.text)
\* The directories of an output root whose meta.json can be read and parsed.
ListedEntries(entries) ==
  {e \in entries : e.is_dir /\ e.kind \in {"scalar", "object"}}

\* C11: for every limit >= 0 get_recent_jobs returns without failing, with at
\* most limit summaries: those of the first directories, in reverse name
\* order, that hold a readable, parseable meta.json; and the empty list when
\* the output root does not exist.
C11_AtMostLimit ==
  output.fn = "get_recent_jobs" =>
    LET r == output.result
        valid == ListedEntries(input.entries)
        k == IF Cardinality(valid) < input.limit
             THEN Cardinality(valid) ELSE input.limit
    IN /\ r.ok
       /\ Len(r.jobs) <= input.limit
       /\ Len(r.jobs) = k
       /\ \A i \in 1..Len(r.jobs) :
            /\ \E e \in valid : r.jobs[i].folder = e.name
            /\ i > 1 => StrLess(r.jobs[i].folder, r.jobs[i - 1].folder)
            /\ \A e \in valid :
                 StrLess(r.jobs[i].folder, e.name)
                   => \E j \in 1..(i - 1) : r.jobs[j].folder = e.name
       /\ ~input.exists => r.jobs = <<>>
\* The characters a to z, 0 to 9 and the underscore.
LowerAlnumUnderscore ==
  {"a", "b", "c", "d", "e", "f", "g", "h", "i", "j", "k", "l", "m", "n", "o",
   "p", "q", "r", "s", "t", "u", "v", "w", "x", "y", "z",
   "0", "1", "2", "3", "4", "5", "6", "7", "8", "9", "_"}

\* The capitals A to Z.
Capitals ==
  {"A", "B", "C", "D", "E", "F", "G", "H", "I", "J", "K", "L", "M", "N", "O",
   "P", "Q", "R", "S", "T", "U", "V", "W", "X", "Y", "Z"}

\* The letters and digits of a text, in order.
LettersOf(text) ==
  SelectSeq(text, LAMBDA c : c \in (LowerAlnumUnderscore \ {"_"}) \cup Capitals)

\* C12 as stated: both sanitizers return, for every input, a non-empty
\* string of characters in [a-z0-9_] only.
C12_LowerAlnumOnly ==
  output.fn \in {"app.sanitize_part", "main.sanitize_part"} =>
    /\ output.result # <<>>
    /\ \A i \in 1..Len(output.result) : output.result[i] \in LowerAlnumUnderscore

\* C12 as amended: sanitize_part of src/app/utils.py returns a non-empty
\* string over [a-z0-9_] whose letters and digits are those of the input,
\* lower-cased and in order, and the fallback when the input holds no letter,
\* digit, underscore or whitespace inside it. sanitize_part of src/main.py
\* keeps the case: it returns a non-empty string over [A-Za-z0-9_] with the
\* letters and digits of the input in order, one underscore for each run of
\* other characters between them, none at either end, and "job" when the
\* input holds no letter or digit.
C12_SanitizedAsCoded ==
  LET r == output.result
  IN /\ output.fn = "app.sanitize_part" =>
          /\ r # <<>>
          /\ \A i \in 1..Len(r) : r[i] \in LowerAlnumUnderscore
          /\ \/ r = output.fallback
             \/ LettersOf(r) = StrLower(LettersOf(input))
          /\ (\A i \in 1..Len(input) : input[i] \in {",", " "})
               /\ ~(\E i, j, k \in 1..Len(input) :
                      i < j /\ j < k /\ input[i] = "," /\ input[j] = " "
                        /\ input[k] = ",")
               => r = output.fallback
          /\ LettersOf(input) # <<>> => LettersOf(r) = StrLower(LettersOf(input))
     /\ output.fn = "main.sanitize_part" =>
          /\ r # <<>>
          /\ \A i \in 1..Len(r) : r[i] \in LowerAlnumUnderscore \cup Capitals
          /\ r[1] # "_" /\ r[Len(r)] # "_"
          /\ \A i \in 1..(Len(r) - 1) : ~(r[i] = "_" /\ r[i + 1] = "_")
          /\ IF LettersOf(input) = <<>> THEN r = <<"j", "o", "b">>
             ELSE LettersOf(r) = LettersOf(input)

\* sanitize_part of src/main.py has kept a capital and has put an underscore
\* for punctuation.
C12_Witness ==
  /\ output.fn = "main.sanitize_part"
  /\ \E i \in 1..Len(input) : input[i] = ","
  /\ \E i, j \in 1..Len(output.result) :
       output.result[i] = "A" /\ output.result[j] = "_"
\* The block the stated rule extracts: the start tag is the tag followed by a
\* newline when that form occurs in the text and the bare tag otherwise; the
\* block runs from the end of its first occurrence to the first end tag
\* after it, or to the end of the text, and is trimmed.
StatedBlock(text, tag, end_tag) ==
  LET at(pat, i) == /\ i + Len(pat) - 1 <= Len(text)
                    /\ SubSeq(text, i, i + Len(pat) - 1) = pat
      start_tag == IF \E i \in 1..Len(text) : at(tag \o <<"\n">>, i)
                   THEN tag \o <<"\n">> ELSE tag
      starts == {i \in 1..Len(text) : at(start_tag, i)}
  IN IF starts = {} THEN <<>>
     ELSE LET from == Min(starts) + Len(start_tag)
              ends == {i \in from..Len(text) : at(end_tag, i)}
              upto == IF ends = {} THEN Len(text) + 1 ELSE Min(ends)
          IN Strip(SubSeq(text, from, upto - 1))

\* C13: each section parse_model_output returns is the block of the stated
\* rule, normalized; the short answers are the answer lines of that block.
C13_NewlineFormFirst ==
  (output.fn = "parse_model_output" /\ output.result.ok) =>
    LET r == output.result
    IN /\ r.reasoning = clean_model_text(StatedBlock(input, TagReasoning, TagCoverLetter))
       /\ r.cover_letter =
            clean_model_text(StatedBlock(input, TagCoverLetter, TagEndCoverLetter))
       /\ r.resume = clean_model_text(StatedBlock(input, TagResume, TagEndResume))
       /\ r.short_answers =
            NormalizeAnswers(CollectAnswers(SplitLines(clean_model_text(
              StatedBlock(input, TagShortAnswers, TagEndShortAnswers)))))
\* The text holds a markdown link: "[", a non-empty label without "]", "](",
\* a non-empty url without ")", and ")".
HasLink(text) ==
  \E i, j, k \in 1..Len(text) :
    /\ text[i] = "[" /\ j >= i + 2 /\ text[j] = "]"
    /\ \A m \in (i + 1)..(j - 1) : text[m] # "]"
    /\ j + 1 <= Len(text) /\ text[j + 1] = "("
    /\ k >= j + 3 /\ text[k] = ")"
    /\ \A m \in (j + 2)..(k - 1) : text[m] # ")"

\* C14: for every input text the result of clean_model_text holds no
\* markdown link, nested and adjacent links and links that arise from
\* un-escaping included.
C14_NoLinkRemains ==
  output.fn = "clean_model_text" => ~HasLink(output.result)
\* The names of the files in a folder.
NamesIn(root, dir) == {f.name : f \in {g \in files : g.root = root /\ g.dir = dir}}

\* The three files a package holds besides meta.json.
Artifacts == {"resume_full.txt", "cover_letter.txt", "short_answers.txt"}

C16_AlwaysGoodFit ==
  output.fn = "estimate_fit_score" =>
    LET r == output.result
        senior == input.seniority_hint \in {"senior", "lead", "director", "executive"}
        long == Len(input.job_description) > 1500
    IN /\ r.fit_score \in {700, 750, 800}
       /\ r.fit_score = 700 + (IF senior THEN 50 ELSE 0) + (IF long THEN 50 ELSE 0)
       /\ r.fit_label = "Good fit"
       /\ r.meta_fit_score = r.fit_score
       /\ r.meta_fit_label = "Good fit"

\* A senior hint with a job description of more than 1500 characters has
\* been scored 80.
C16_Witness ==
  /\ output.fn = "estimate_fit_score"
  /\ input.seniority_hint = "director"
  /\ Len(input.job_description) = 1501
  /\ output.result.fit_score = 800
  /\ output.result.meta_fit_label = "Good fit"
====
